---- MODULE Spec2Model ----
(***************************************************************************)
(* Model of the dynamically resizable worker pool of src/main.go: the Pool *)
(* struct (mutex, worker registry, job channel, id counter, wait group),   *)
(* its four operations and the worker goroutine started by AddWorker.      *)
(*                                                                         *)
(* Threads are the caller goroutines of Callers and one goroutine per      *)
(* worker id.  Every statement that another thread can observe is a step   *)
(* of its own; statements that run with p.mu held and touch only state     *)
(* guarded by p.mu are grouped with the Lock or Unlock next to them, and a  *)
(* locked section with a single observable write (RemoveWorker) is one     *)
(* step.  A Go panic ends the whole process: no step is enabled once       *)
(* panicked.                                                               *)
(***************************************************************************)
EXTENDS Integers, Sequences, FiniteSets, TLC

\* Bounds of the model.
MaxWorkers == 2
MaxJobs == 2
MaxBuffer == 2

\* The goroutines that call the Pool's API, the ids AddWorker can hand out,
\* and the job payloads SendJob is called with (each payload is sent once, so
\* that a payload identifies a job).
Callers == {1, 2}
WorkerIds == 0 .. (MaxWorkers - 1)
Payloads == 1 .. MaxJobs

\* The ids RemoveWorker is called with: every id AddWorker can hand out and
\* one that it never hands out.
RemoveIds == 0 .. MaxWorkers

VARIABLES
    mu,          \* p.mu: <<"free", 0>>, <<"caller", c>> or <<"worker", id>>
    workers,     \* p.workers: id -> [ID, Cancel]
    jobs,        \* p.jobs: the channel's buffer
    closed,      \* p.jobs has been closed
    bufferSize,  \* cap(p.jobs), fixed by NewPool
    nextID,      \* p.nextID
    wg,          \* p.wg: the WaitGroup's counter
    ctxDone,     \* the contexts whose cancel function has been called
    wpc,         \* worker goroutine id -> its position
    wjob,        \* worker goroutine id -> <<job>> while it processes one
    cpc,         \* caller -> its position
    cid,         \* caller -> <<id>>: the id local of AddWorker
    crange,      \* caller -> the workers Shutdown's range has still to visit
    panicked,    \* a goroutine has panicked: the process is gone
    issued,      \* history: the ids AddWorker allocated, in lock order
    accepted,    \* history: the jobs for which SendJob returned nil, in order
    rejected,    \* history: the jobs for which SendJob returned the error
    received,    \* history: the jobs received from p.jobs, in order
    processed,   \* history: the jobs whose processing finished
    sdReturned,  \* history: a Shutdown call has returned
    lateAdd      \* history: an AddWorker call took p.mu after close(p.jobs)

vars == <<mu, workers, jobs, closed, bufferSize, nextID, wg, ctxDone, wpc, wjob,
          cpc, cid, crange, panicked, issued, accepted, rejected, received,
          processed, sdReturned, lateAdd>>

pool == <<workers, jobs, closed, bufferSize, nextID, wg, ctxDone>>
workerState == <<wpc, wjob>>
history == <<issued, accepted, rejected, received, processed, sdReturned, lateAdd>>

Free == <<"free", 0>>
ByCaller(c) == <<"caller", c>>
ByWorker(w) == <<"worker", w>>

Range(s) == {s[i] : i \in 1 .. Len(s)}
Sent == Range(accepted) \cup rejected

\* NewPool(bufferSize): an empty registry and an open, empty channel of the
\* given capacity; nextID and the WaitGroup start at their zero values.
Init ==
    /\ mu = Free
    /\ workers = <<>>
    /\ jobs = <<>>
    /\ closed = FALSE
    /\ bufferSize \in 1 .. MaxBuffer
    /\ nextID = 0
    /\ wg = 0
    /\ ctxDone = {}
    /\ wpc = [w \in WorkerIds |-> "none"]
    /\ wjob = [w \in WorkerIds |-> <<>>]
    /\ cpc = [c \in Callers |-> "idle"]
    /\ cid = [c \in Callers |-> <<>>]
    /\ crange = [c \in Callers |-> {}]
    /\ panicked = FALSE
    /\ issued = <<>>
    /\ accepted = <<>>
    /\ rejected = {}
    /\ received = <<>>
    /\ processed = {}
    /\ sdReturned = FALSE
    /\ lateAdd = FALSE

----
\* Pool.AddWorker

\* Mutant: the id is taken from the size of the registry, id := len(p.workers).
AllocID_FromRegistrySize == Cardinality(DOMAIN workers)

\* id := p.nextID
AllocID == nextID

\* p.nextID++
BumpID(n) == n + 1

\* Worker{ID: id, Cancel: cancel}: cancel belongs to the context made by this
\* call, which is named by the id.
NewWorker(id) == [ID |-> id, Cancel |-> id]

\* Mutant: the worker is not entered in the registry.
Register_Forgotten(id) == workers

\* p.workers[id] = worker
Register(id) ==
    [k \in (DOMAIN workers) \cup {id} |->
        IF k = id THEN NewWorker(id) ELSE workers[k]]

\* p.mu.Lock(); ctx, cancel := context.WithCancel(...); id := p.nextID;
\* p.nextID++; p.workers[id] = worker
AddWorkerRegister(c) ==
    /\ ~panicked
    /\ cpc[c] = "idle"
    /\ mu = Free
    /\ nextID < MaxWorkers
    /\ mu' = ByCaller(c)
    /\ LET id == AllocID IN
        /\ nextID' = BumpID(nextID)
        /\ workers' = Register(id)
        /\ cid' = [cid EXCEPT ![c] = <<id>>]
        /\ issued' = Append(issued, id)
    /\ cpc' = [cpc EXCEPT ![c] = "AddWorker_registered"]
    /\ lateAdd' = (lateAdd \/ closed)
    /\ UNCHANGED <<jobs, closed, bufferSize, wg, ctxDone, wpc, wjob, crange,
                   panicked, accepted, rejected, received, processed, sdReturned>>

\* Mutant: the worker is started without p.wg.Add(1).
WgAdd_Forgotten(n) == n

\* p.wg.Add(1)
WgAdd(n) == n + 1

\* p.wg.Add(1); go func(id, ctx) {...}(id, ctx)
AddWorkerSpawn(c) ==
    /\ ~panicked
    /\ cpc[c] = "AddWorker_registered"
    /\ wg' = WgAdd(wg)
    /\ wpc' = [wpc EXCEPT ![cid[c][1]] = "start"]
    /\ cpc' = [cpc EXCEPT ![c] = "AddWorker_spawned"]
    /\ UNCHANGED <<mu, workers, jobs, closed, bufferSize, nextID, ctxDone, wjob,
                   cid, crange, panicked, history>>

\* return id, and the deferred p.mu.Unlock()
AddWorkerReturn(c) ==
    /\ ~panicked
    /\ cpc[c] = "AddWorker_spawned"
    /\ mu' = Free
    /\ cpc' = [cpc EXCEPT ![c] = "idle"]
    /\ cid' = [cid EXCEPT ![c] = <<>>]
    /\ UNCHANGED <<pool, workerState, crange, panicked, history>>

----
\* Pool.RemoveWorker

\* Mutant: one cancel function shared by the pool, so that removing a
\* registered worker cancels every registered worker.
RemoveCancels_Shared(id) ==
    IF id \in DOMAIN workers THEN {workers[k].Cancel : k \in DOMAIN workers} ELSE {}

\* Mutant: the existence test is dropped and the context of id is cancelled
\* whether or not id is registered.
RemoveCancels_Unchecked(id) == {id}

\* The contexts cancelled by RemoveWorker(id):
\* if worker, exists := p.workers[id]; exists { worker.Cancel() }
RemoveCancels(id) ==
    IF id \in DOMAIN workers THEN {workers[id].Cancel} ELSE {}

\* p.mu.Lock(), the body of RemoveWorker and the deferred p.mu.Unlock().
\* One step: the locked section makes a single write that other goroutines
\* can see (the cancellation), so they cannot tell the three apart.
RemoveWorker(c, id) ==
    /\ ~panicked
    /\ cpc[c] = "idle"
    /\ mu = Free
    /\ ctxDone' = ctxDone \cup RemoveCancels(id)
    /\ UNCHANGED <<mu, workers, jobs, closed, bufferSize, nextID, wg,
                   workerState, cpc, cid, crange, panicked, history>>

----
\* Pool.SendJob

\* Mutant: the capacity is off by one.
CanSend_OffByOne == Len(jobs) <= bufferSize

\* Mutant: the send blocks instead of failing, so it always goes through.
CanSend_Always == TRUE

\* case p.jobs <- job is ready: the buffer has room
CanSend == Len(jobs) < bufferSize

\* The caller numbers its payloads as main does ("Task 0", "Task 1", ...):
\* the k-th call of SendJob carries the k-th payload.
NextPayload == Cardinality(Sent) + 1

\* Mutant: a closed channel is treated like an open one by the select.
SendOnClosed_Never == FALSE

\* case p.jobs <- job on a closed channel: the select panics
SendOnClosed == closed

\* select { case p.jobs <- job: return nil; default: return error }.
\* A send on a closed channel panics, whatever the buffer holds.
SendJob(c, job) ==
    /\ ~panicked
    /\ cpc[c] = "idle"
    /\ job = NextPayload
    /\ IF SendOnClosed
       THEN /\ panicked' = TRUE
            /\ UNCHANGED <<jobs, accepted, rejected>>
       ELSE IF CanSend
       THEN /\ jobs' = Append(jobs, job)
            /\ accepted' = Append(accepted, job)
            /\ UNCHANGED <<panicked, rejected>>
       ELSE /\ rejected' = rejected \cup {job}
            /\ UNCHANGED <<panicked, jobs, accepted>>
    /\ UNCHANGED <<mu, workers, closed, bufferSize, nextID, wg, ctxDone,
                   workerState, cpc, cid, crange, issued, received, processed,
                   sdReturned, lateAdd>>

----
\* Pool.Shutdown

\* close(p.jobs); closing a closed channel panics
ShutdownClose(c) ==
    /\ ~panicked
    /\ cpc[c] = "idle"
    /\ IF closed
       THEN /\ panicked' = TRUE
            /\ UNCHANGED <<closed, cpc>>
       ELSE /\ closed' = TRUE
            /\ cpc' = [cpc EXCEPT ![c] = "Shutdown_closed"]
            /\ UNCHANGED panicked
    /\ UNCHANGED <<mu, workers, jobs, bufferSize, nextID, wg, ctxDone,
                   workerState, cid, crange, history>>

\* p.mu.Lock(); for _, worker := range p.workers starts
ShutdownLock(c) ==
    /\ ~panicked
    /\ cpc[c] = "Shutdown_closed"
    /\ mu = Free
    /\ mu' = ByCaller(c)
    /\ crange' = [crange EXCEPT ![c] = DOMAIN workers]
    /\ cpc' = [cpc EXCEPT ![c] = "Shutdown_locked"]
    /\ UNCHANGED <<pool, workerState, cid, panicked, history>>

\* one iteration of the range, in the map's arbitrary order: worker.Cancel()
ShutdownCancel(c, id) ==
    /\ ~panicked
    /\ cpc[c] = "Shutdown_locked"
    /\ id \in crange[c]
    /\ ctxDone' = ctxDone \cup {workers[id].Cancel}
    /\ crange' = [crange EXCEPT ![c] = @ \ {id}]
    /\ UNCHANGED <<mu, workers, jobs, closed, bufferSize, nextID, wg,
                   workerState, cpc, cid, panicked, history>>

\* the range is over: p.mu.Unlock()
ShutdownUnlock(c) ==
    /\ ~panicked
    /\ cpc[c] = "Shutdown_locked"
    /\ crange[c] = {}
    /\ mu' = Free
    /\ cpc' = [cpc EXCEPT ![c] = "Shutdown_wait"]
    /\ UNCHANGED <<pool, workerState, cid, crange, panicked, history>>

\* Mutant: the wait is for a signal that the last worker to finish sends, so
\* that with no worker ever added nobody sends it.
WaitDone_NeedsAWorker == wg = 0 /\ issued # <<>>

\* Mutant: Shutdown does not wait for the workers.
WaitDone_NoWait == TRUE

\* p.wg.Wait() returns when the counter is zero
WaitDone == wg = 0

\* p.wg.Wait(), and the return of Shutdown
ShutdownWait(c) ==
    /\ ~panicked
    /\ cpc[c] = "Shutdown_wait"
    /\ WaitDone
    /\ cpc' = [cpc EXCEPT ![c] = "idle"]
    /\ sdReturned' = TRUE
    /\ UNCHANGED <<mu, pool, workerState, cid, crange, panicked, issued,
                   accepted, rejected, received, processed, lateAdd>>

----
\* The worker goroutine started by AddWorker; goroutine w holds the context
\* made by the AddWorker call that allocated id w.

\* fmt.Printf("Worker %d started\n", id)
WorkerStart(w) ==
    /\ ~panicked
    /\ wpc[w] = "start"
    /\ wpc' = [wpc EXCEPT ![w] = "select"]
    /\ UNCHANGED <<mu, pool, wjob, cpc, cid, crange, panicked, history>>

\* Mutant: the cancellation preempts the worker, it is also noticed while a
\* job is being processed.
AtSelect_OrMidJob(w) == wpc[w] \in {"select", "job"}

\* The goroutine is at the select of its for loop, between two jobs.
AtSelect(w) == wpc[w] = "select"

\* Mutant: jobs have priority, ctx.Done() is looked at only when no job is
\* buffered.
CtxReady_WhenNoJob(w) == w \in ctxDone /\ Len(jobs) = 0

\* Mutant: the select has no ctx.Done() case.
CtxReady_Never(w) == FALSE

\* case <-ctx.Done() is ready
CtxReady(w) == w \in ctxDone

\* case job, ok := <-p.jobs is ready with ok = true
RecvReady == Len(jobs) > 0

\* case job, ok := <-p.jobs is ready with ok = false
ClosedReady == closed /\ Len(jobs) = 0

\* select picks case <-ctx.Done(): return
WorkerCancelled(w) ==
    /\ ~panicked
    /\ AtSelect(w)
    /\ CtxReady(w)
    /\ wpc' = [wpc EXCEPT ![w] = "exit"]
    /\ UNCHANGED <<mu, pool, wjob, cpc, cid, crange, panicked, history>>

\* Mutant: the receive hands out the newest buffered job.
Dequeue_Newest(q) == [job |-> q[Len(q)], rest |-> SubSeq(q, 1, Len(q) - 1)]

\* Mutant: the receive reads the oldest buffered job and leaves it buffered.
Dequeue_Peek(q) == [job |-> Head(q), rest |-> q]

\* job := <-p.jobs on a non-empty buffer: the oldest job leaves the buffer
Dequeue(q) == [job |-> Head(q), rest |-> Tail(q)]

\* select picks the receive and gets a job: "processing" is printed
WorkerReceive(w) ==
    /\ ~panicked
    /\ AtSelect(w)
    /\ RecvReady
    /\ wjob' = [wjob EXCEPT ![w] = <<Dequeue(jobs).job>>]
    /\ jobs' = Dequeue(jobs).rest
    /\ received' = Append(received, Dequeue(jobs).job)
    /\ wpc' = [wpc EXCEPT ![w] = "job"]
    /\ UNCHANGED <<mu, workers, closed, bufferSize, nextID, wg, ctxDone, cpc,
                   cid, crange, panicked, issued, accepted, rejected, processed,
                   sdReturned, lateAdd>>

\* select picks the receive on the closed, drained channel: return
WorkerClosed(w) ==
    /\ ~panicked
    /\ AtSelect(w)
    /\ ClosedReady
    /\ wpc' = [wpc EXCEPT ![w] = "exit"]
    /\ UNCHANGED <<mu, pool, wjob, cpc, cid, crange, panicked, history>>

\* time.Sleep(500ms) is over: back to the select
WorkerProcess(w) ==
    /\ ~panicked
    /\ wpc[w] = "job"
    /\ processed' = processed \cup {wjob[w][1]}
    /\ wjob' = [wjob EXCEPT ![w] = <<>>]
    /\ wpc' = [wpc EXCEPT ![w] = "select"]
    /\ UNCHANGED <<mu, pool, cpc, cid, crange, panicked, issued, accepted,
                   rejected, received, sdReturned, lateAdd>>

\* the deferred function: p.mu.Lock()
WorkerLock(w) ==
    /\ ~panicked
    /\ wpc[w] = "exit"
    /\ mu = Free
    /\ mu' = ByWorker(w)
    /\ wpc' = [wpc EXCEPT ![w] = "cleanup"]
    /\ UNCHANGED <<pool, wjob, cpc, cid, crange, panicked, history>>

\* Mutant: the deferred function does not delete the entry.
Deleted_Forgotten(w) == workers

\* delete(p.workers, id)
Deleted(w) == [k \in (DOMAIN workers) \ {w} |-> workers[k]]

\* delete(p.workers, id); p.mu.Unlock()
WorkerDeregister(w) ==
    /\ ~panicked
    /\ wpc[w] = "cleanup"
    /\ workers' = Deleted(w)
    /\ mu' = Free
    /\ wpc' = [wpc EXCEPT ![w] = "deregistered"]
    /\ UNCHANGED <<jobs, closed, bufferSize, nextID, wg, ctxDone, wjob, cpc,
                   cid, crange, panicked, history>>

\* Mutant: the counter is signalled twice on exit, once in the loop and once
\* in the deferred function.
WgDone_Twice(n) == n - 2

\* Mutant: the deferred function does not call p.wg.Done().
WgDone_Forgotten(n) == n

\* p.wg.Done()
WgDone(n) == n - 1

\* p.wg.Done(); a negative counter panics
WorkerDone(w) ==
    /\ ~panicked
    /\ wpc[w] = "deregistered"
    /\ IF wg = 0
       THEN /\ panicked' = TRUE
            /\ UNCHANGED <<wg, wpc>>
       ELSE /\ wg' = WgDone(wg)
            /\ wpc' = [wpc EXCEPT ![w] = "signalled"]
            /\ UNCHANGED panicked
    /\ UNCHANGED <<mu, workers, jobs, closed, bufferSize, nextID, ctxDone, wjob,
                   cpc, cid, crange, history>>

\* fmt.Printf("Worker %d stopped\n", id), and the goroutine ends
WorkerStopped(w) ==
    /\ ~panicked
    /\ wpc[w] = "signalled"
    /\ wpc' = [wpc EXCEPT ![w] = "stopped"]
    /\ UNCHANGED <<mu, pool, wjob, cpc, cid, crange, panicked, history>>

----
Next ==
    \/ \E c \in Callers : AddWorkerRegister(c)
    \/ \E c \in Callers : AddWorkerSpawn(c)
    \/ \E c \in Callers : AddWorkerReturn(c)
    \/ \E c \in Callers : \E id \in RemoveIds : RemoveWorker(c, id)
    \/ \E c \in Callers : \E job \in Payloads : SendJob(c, job)
    \/ \E c \in Callers : ShutdownClose(c)
    \/ \E c \in Callers : ShutdownLock(c)
    \/ \E c \in Callers : \E id \in WorkerIds : ShutdownCancel(c, id)
    \/ \E c \in Callers : ShutdownUnlock(c)
    \/ \E c \in Callers : ShutdownWait(c)
    \/ \E w \in WorkerIds : WorkerStart(w)
    \/ \E w \in WorkerIds : WorkerCancelled(w)
    \/ \E w \in WorkerIds : WorkerReceive(w)
    \/ \E w \in WorkerIds : WorkerClosed(w)
    \/ \E w \in WorkerIds : WorkerProcess(w)
    \/ \E w \in WorkerIds : WorkerLock(w)
    \/ \E w \in WorkerIds : WorkerDeregister(w)
    \/ \E w \in WorkerIds : WorkerDone(w)
    \/ \E w \in WorkerIds : WorkerStopped(w)

Spec == Init /\ [][Next]_vars

\* Scheduling.  A goroutine that can run does run: each step that follows a
\* call's first step is weakly fair, and a worker blocked in its select takes
\* one of the ready cases.  sync.Mutex hands the lock to a waiter that has been
\* kept out (starvation mode), so taking p.mu is strongly fair.  Nothing makes
\* a caller start a new call.
WorkerSelect(w) == WorkerCancelled(w) \/ WorkerReceive(w) \/ WorkerClosed(w)

Fairness ==
    /\ \A w \in WorkerIds :
          /\ WF_vars(WorkerStart(w))
          /\ WF_vars(WorkerSelect(w))
          /\ WF_vars(WorkerProcess(w))
          /\ SF_vars(WorkerLock(w))
          /\ WF_vars(WorkerDeregister(w))
          /\ WF_vars(WorkerDone(w))
          /\ WF_vars(WorkerStopped(w))
    /\ \A c \in Callers :
          /\ WF_vars(AddWorkerSpawn(c))
          /\ WF_vars(AddWorkerReturn(c))
          /\ SF_vars(ShutdownLock(c))
          /\ WF_vars(\E id \in WorkerIds : ShutdownCancel(c, id))
          /\ WF_vars(ShutdownUnlock(c))
          /\ WF_vars(ShutdownWait(c))

FairSpec == Spec /\ Fairness

----
\* Derived state used by the properties.

\* The worker goroutines that have been started.
Started == {w \in WorkerIds : wpc[w] # "none"}

\* The worker goroutines that have printed "stopped" and ended.
Stopped == {w \in WorkerIds : wpc[w] = "stopped"}

\* Shutdown has returned with every worker that was ever added stopped.
ShutdownComplete == sdReturned /\ wg = 0 /\ Range(issued) \subseteq Stopped

\* Worker w has run its deregistration: delete(p.workers, id) and p.wg.Done().
Deregistered(w) == wpc[w] \in {"signalled", "stopped"}

\* No misuse so far: no AddWorker after the queue was closed, and no panic
\* (a SendJob or a second Shutdown after the queue was closed panics).
Disciplined == ~lateAdd /\ ~panicked

\* The number of times job j was received from the queue.
TimesReceived(j) == Cardinality({i \in 1 .. Len(received) : received[i] = j})

\* Worker w, blocked in its select, can take a job from the queue.
CanReceive(w) == wpc[w] = "select" /\ RecvReady

----
\* C1 (as claimed): when Shutdown has returned and the last worker has
\* stopped, no accepted job is left in the queue: every accepted job was
\* received by exactly one worker.
C1_DrainCompleteness ==
    (ShutdownComplete /\ Disciplined /\ nextID > 0) =>
        /\ jobs = <<>>
        /\ \A j \in Range(accepted) : TimesReceived(j) = 1

\* C2: once Shutdown has closed the queue, and unless an AddWorker, a SendJob
\* or a second Shutdown follows it, every worker that was added eventually
\* prints "stopped", the WaitGroup counter reaches zero and Shutdown returns.
C2_ShutdownTerminates == closed ~> (ShutdownComplete \/ lateAdd \/ panicked)

\* C2 witness: Shutdown has returned, every worker has stopped, two workers
\* had been added, one of them was cancelled by RemoveWorker or Shutdown, and
\* a job was processed.
C2_Witness ==
    /\ ShutdownComplete /\ Disciplined
    /\ Cardinality(Started) >= 2
    /\ ctxDone # {}
    /\ processed # {}

\* C3: whenever Shutdown has returned and no AddWorker was issued after it
\* began, the registry is empty and every worker that was ever added has run
\* its deregistration step.
C3_ReturnedMeansDeregistered ==
    (sdReturned /\ ~lateAdd) =>
        /\ DOMAIN workers = {}
        /\ \A w \in Range(issued) : Deregistered(w)

\* C3 witness: Shutdown has returned after two workers were started.
C3_Witness == sdReturned /\ ~lateAdd /\ Cardinality(Started) >= 2

\* C4 (as claimed): when Shutdown has returned, every worker that was
\* registered when it was called has printed its "stopped" notification.
C4_ReturnAfterStoppedNotices ==
    (sdReturned /\ ~lateAdd) => Range(issued) \subseteq Stopped

\* C5: RemoveWorker(A) leaves, for every other worker B, B's cancellation
\* signal, B's position and current job, and the job queue unchanged, and B
\* can still receive a job if it could before.
C5_RemovalIsolation ==
    [][\A c \in Callers : \A A \in RemoveIds : RemoveWorker(c, A) =>
          /\ UNCHANGED <<jobs, closed>>
          /\ \A B \in WorkerIds \ {A} :
                /\ CtxReady(B)' = CtxReady(B)
                /\ wpc'[B] = wpc[B]
                /\ wjob'[B] = wjob[B]
                /\ CanReceive(B) => CanReceive(B)']_vars

\* C5 witness: before any Shutdown, worker A has been cancelled by
\* RemoveWorker while worker B, not cancelled, is in the middle of a job.
C5_Witness ==
    /\ ~closed
    /\ \E A, B \in WorkerIds :
          /\ A # B
          /\ A \in ctxDone
          /\ B \notin ctxDone
          /\ wpc[B] = "job"

\* C6: the ids AddWorker allocates, in the order the calls take the lock,
\* are strictly increasing (so pairwise distinct), each is below nextID, and
\* nextID never decreases.
C6_IdUniqueness ==
    [][/\ nextID' >= nextID
       /\ \A i, j \in 1 .. Len(issued') : i < j => issued'[i] < issued'[j]
       /\ \A i \in 1 .. Len(issued') : issued'[i] < nextID']_vars

\* C6 witness: an AddWorker call has allocated the second id after the first
\* worker stopped and was deregistered.
C6_Witness ==
    /\ Len(issued) >= 2
    /\ issued[1] \in Stopped
    /\ wpc[issued[2]] = "none"

\* C7: the buffer never holds more than bufferSize jobs, and as long as no
\* worker has received a job the first bufferSize calls of SendJob are the
\* accepted ones and every later call is rejected (payload j is the j-th call).
C7_QueueBound ==
    /\ Len(jobs) \in 0 .. bufferSize
    /\ received = <<>> =>
          /\ \A j \in Range(accepted) : j <= bufferSize
          /\ \A j \in rejected : j > bufferSize

\* C7 witness: nothing was received, the buffer is full and a call failed.
C7_Witness == received = <<>> /\ Len(jobs) = bufferSize /\ rejected # {}

\* C8: on an open queue SendJob returns in its one step, without a panic;
\* with fewer than bufferSize jobs buffered it appends the payload and
\* succeeds, and otherwise it fails and leaves the queue, the registry,
\* nextID, the WaitGroup and every worker unchanged.
C8_SendJobDecidedByLength ==
    [][\A c \in Callers : \A job \in Payloads :
          (SendJob(c, job) /\ ~closed) =>
              /\ cpc'[c] = "idle"
              /\ ~panicked'
              /\ IF Len(jobs) < bufferSize
                 THEN /\ jobs' = Append(jobs, job)
                      /\ accepted' = Append(accepted, job)
                      /\ rejected' = rejected
                 ELSE /\ rejected' = rejected \cup {job}
                      /\ UNCHANGED <<jobs, accepted, workers, nextID, wg,
                                     ctxDone, wpc, wjob>>]_vars

\* C8 witness: one call succeeded and a later one failed on the full queue
\* although a worker goroutine was already running.
C8_Witness ==
    /\ accepted # <<>>
    /\ rejected # {}
    /\ jobs # <<>>
    /\ \E w \in WorkerIds : wpc[w] = "select"

\* C9: RemoveWorker(id) for an id that is not in the registry returns
\* without a panic and leaves the registry, nextID, the queue, the WaitGroup,
\* every cancellation signal and every worker unchanged.
C9_RemoveUnknownIsNoOp ==
    [][\A c \in Callers : \A id \in RemoveIds :
          (RemoveWorker(c, id) /\ id \notin DOMAIN workers) =>
              /\ cpc'[c] = "idle"
              /\ ~panicked'
              /\ UNCHANGED <<workers, nextID, jobs, closed, wg, ctxDone,
                             wpc, wjob>>]_vars

\* C9 witness: before any Shutdown a caller is free to call RemoveWorker,
\* with the lock free, for the id of a worker that has stopped and
\* deregistered, while another, uncancelled worker is registered.
C9_Witness ==
    /\ ~panicked /\ ~closed
    /\ mu = Free
    /\ \E c \in Callers : cpc[c] = "idle"
    /\ \E w \in Stopped : w \notin DOMAIN workers
    /\ \E w \in DOMAIN workers : w \notin ctxDone

\* C10: RemoveWorker never changes the registry and, for a registered id,
\* fires that worker's cancellation and nothing else; an entry leaves the
\* registry only by the deregistration step of its own worker; and a
\* registered worker whose cancellation has fired is eventually no longer
\* registered (unless the process panics first).
C10_RemoveIsAsynchronous ==
    /\ [][/\ \A c \in Callers : \A id \in RemoveIds : RemoveWorker(c, id) =>
                /\ workers' = workers
                /\ id \in DOMAIN workers => ctxDone' = ctxDone \cup {id}
          /\ \A w \in (DOMAIN workers) \ (DOMAIN workers') :
                WorkerDeregister(w)]_vars
    /\ \A w \in WorkerIds :
          (w \in DOMAIN workers /\ w \in ctxDone)
              ~> (w \notin DOMAIN workers \/ panicked)

\* C10 witness: RemoveWorker has returned, the worker it cancelled is still
\* registered and running, and no Shutdown has begun.
C10_Witness ==
    /\ ~closed
    /\ \A c \in Callers : cpc[c] = "idle"
    /\ \E w \in DOMAIN workers : w \in ctxDone /\ wpc[w] \in {"select", "job"}

\* The step of Shutdown that caller c takes next, once the queue is closed.
ShutdownStep(c) ==
    \/ ShutdownLock(c)
    \/ \E id \in WorkerIds : ShutdownCancel(c, id)
    \/ ShutdownUnlock(c)
    \/ ShutdownWait(c)

\* Caller c is inside Shutdown, past the close.
InShutdown(c) == cpc[c] \in {"Shutdown_closed", "Shutdown_locked", "Shutdown_wait"}

\* C11: while a caller is inside Shutdown on a pool that is idle (every
\* worker that was ever added, if any, has deregistered and signalled the
\* WaitGroup, and no AddWorker follows the close), Shutdown is never blocked:
\* its next step is enabled, it has no worker to cancel, and in particular
\* its wait returns at once.  Buffered jobs make no difference.
C11_IdleShutdownNeverBlocks ==
    \A c \in Callers :
        (/\ InShutdown(c)
         /\ Disciplined
         /\ \A w \in Range(issued) : Deregistered(w))
        => /\ ENABLED ShutdownStep(c)
           /\ crange[c] = {}
           /\ cpc[c] = "Shutdown_wait" => ENABLED ShutdownWait(c)

\* C11 witness: Shutdown is at its wait on a pool to which no worker was
\* ever added and no job was ever sent.
C11_Witness ==
    \E c \in Callers :
        /\ cpc[c] = "Shutdown_wait"
        /\ issued = <<>>
        /\ Sent = {}
        /\ ~panicked

\* C12: jobs leave the queue in the order in which SendJob accepted them:
\* the jobs received so far are the first accepted ones, in that order, and
\* the buffer holds the accepted jobs that follow them, in that order.
C12_FifoDelivery ==
    /\ Len(received) <= Len(accepted)
    /\ \A i \in 1 .. Len(received) : received[i] = accepted[i]
    /\ jobs = SubSeq(accepted, Len(received) + 1, Len(accepted))

\* C12 witness: on a queue of capacity two, two jobs have been received by
\* two different workers that are processing them at the same time.
C12_Witness ==
    /\ bufferSize >= 2
    /\ Len(received) >= 2
    /\ \E v, w \in WorkerIds : v # w /\ wpc[v] = "job" /\ wpc[w] = "job"

\* The workers whose goroutine has been started and has not yet run
\* delete(p.workers, id).
Live == {w \in WorkerIds : wpc[w] \in {"start", "select", "job", "exit", "cleanup"}}

\* The ids that an AddWorker call has stored in the registry and whose
\* goroutine it has not yet started (the call is between p.workers[id] =
\* worker and the go statement, with p.mu held).
Launching == {cid[c][1] : c \in {d \in Callers : cpc[d] = "AddWorker_registered"}}

\* C13 (as claimed): in every state the registry's keys are exactly the ids
\* whose goroutine has been started and has not yet deregistered.
C13_RegistryIsLiveSet == DOMAIN workers = Live

\* C13 (amended): in every state the registry's keys are the ids whose
\* goroutine has been started and has not yet deregistered, together with
\* the id that an AddWorker call holding p.mu has stored and is about to
\* start a goroutine for.
C13_RegistryIsLiveOrLaunching == DOMAIN workers = Live \cup Launching

\* C13 witness: one worker is running, one has deregistered and stopped.
C13_Witness ==
    /\ Live # {}
    /\ Stopped # {}
    /\ Launching = {}
    /\ ~closed

\* C14 (as claimed): a worker whose cancellation has fired receives no
\* further job from the queue.
C14_NoReceiveAfterCancel ==
    [][\A w \in WorkerIds : w \in ctxDone => ~WorkerReceive(w)]_vars

\* C14 (amended): a worker whose cancellation has fired can stop at every
\* check point: whenever it is at its select, taking the ctx.Done() case is
\* enabled, whether or not a job is buffered.  (The select has no priority,
\* so with a job buffered it may take the job instead.)
C14_CancelledCanStopAtSelect ==
    \A w \in WorkerIds :
        (wpc[w] = "select" /\ w \in ctxDone /\ ~panicked)
            => ENABLED WorkerCancelled(w)

\* C14 witness: a cancelled worker is at its select with a job buffered, so
\* that both cases are ready.
C14_Witness ==
    /\ ~panicked
    /\ \E w \in WorkerIds : wpc[w] = "select" /\ w \in ctxDone /\ jobs # <<>>

\* The workers that have left their loop, on any exit path.
Exited ==
    {w \in WorkerIds :
        wpc[w] \in {"exit", "cleanup", "deregistered", "signalled", "stopped"}}

\* C15: cancellation is cooperative.  A worker holds a job exactly while it
\* is processing it, a worker that has left its loop holds none, and every
\* job received so far is either processed or held by a worker that is still
\* processing it; so no worker deregisters or stops with a job unfinished.
C15_NoStopMidJob ==
    /\ \A w \in WorkerIds : (wpc[w] = "job") <=> (wjob[w] # <<>>)
    /\ \A w \in Exited : wjob[w] = <<>>
    /\ \A j \in Range(received) :
           \/ j \in processed
           \/ \E w \in WorkerIds \ Exited : wjob[w] = <<j>>

\* C15 witness: a worker's cancellation has fired while it is in the middle of
\* a job, and another worker has already left its loop.
C15_Witness ==
    /\ ~panicked
    /\ \E w \in WorkerIds : wpc[w] = "job" /\ w \in ctxDone
    /\ Exited # {}

\* The workers that p.wg counts: added by wg.Add(1) and not yet past
\* wg.Done().
Counted ==
    {w \in WorkerIds :
        wpc[w] \in {"start", "select", "job", "exit", "cleanup", "deregistered"}}

\* The stages of the deferred cleanup, in program order.
CleanupRank(w) ==
    CASE wpc[w] = "cleanup"      -> 1
      [] wpc[w] = "deregistered" -> 2
      [] wpc[w] = "signalled"    -> 3
      [] wpc[w] = "stopped"      -> 4
      [] OTHER                   -> 0

\* C16, the steps: the delete of a worker removes its own entry, which is
\* there, and no other; its wg.Done() lowers the counter by exactly one and
\* does not panic; nothing else removes an entry or lowers the counter; and
\* the cleanup of a worker only moves forward, so it runs once.
C16_CleanupStep ==
    \A w \in WorkerIds :
        /\ WorkerDeregister(w) =>
               /\ w \in DOMAIN workers
               /\ DOMAIN workers' = (DOMAIN workers) \ {w}
               /\ \A k \in DOMAIN workers' : workers'[k] = workers[k]
        /\ WorkerDone(w) => (wg' = wg - 1 /\ wg' >= 0 /\ ~panicked')
        /\ (w \in DOMAIN workers /\ w \notin DOMAIN workers') => WorkerDeregister(w)
        /\ (w \in Counted /\ w \notin Counted') => WorkerDone(w)
        /\ CleanupRank(w) > 0 =>
               /\ CleanupRank(w)' >= CleanupRank(w)
               /\ CleanupRank(w)' <= CleanupRank(w) + 1

\* C16: exit cleanup runs exactly once per worker.  In every state the
\* counter is the number of workers added and not yet signalled, hence never
\* negative, and every step obeys C16_CleanupStep.
C16_CleanupExactlyOnce ==
    /\ [](wg = Cardinality(Counted) /\ wg >= 0)
    /\ [][C16_CleanupStep]_vars

\* C16 witness: one worker has finished its cleanup on its own cancellation
\* while another one is still registered and counted.
C16_Witness ==
    /\ ~panicked /\ ~closed
    /\ wg = 1
    /\ \E w, v \in WorkerIds :
           /\ CleanupRank(w) >= 3
           /\ w \notin DOMAIN workers
           /\ v \in DOMAIN workers /\ v \in Counted

\* C17, the steps: when AddWorker returns id, the registry holds id and
\* p.wg counts the worker, before and after the return; and a worker starts
\* to run, and receives a job, only when it is registered and counted.
C17_ReturnStep ==
    /\ \A c \in Callers :
           AddWorkerReturn(c) =>
               /\ cid[c][1] \in DOMAIN workers /\ cid[c][1] \in DOMAIN workers'
               /\ cid[c][1] \in Counted /\ cid[c][1] \in Counted'
               /\ wg >= 1 /\ wg' >= 1
    /\ \A w \in WorkerIds :
           (WorkerStart(w) \/ WorkerReceive(w)) =>
               (w \in DOMAIN workers /\ w \in Counted)

\* C17: AddWorker registers synchronously.  Every step obeys C17_ReturnStep,
\* and while a worker is counted no Shutdown can get past its wait.
C17_AddWorkerRegistersSynchronously ==
    /\ [](Counted # {} => \A c \in Callers : ~ENABLED ShutdownWait(c))
    /\ [][C17_ReturnStep]_vars

\* C17 witness: AddWorker is about to return an id whose worker already runs
\* and has received a job.
C17_Witness ==
    /\ ~panicked
    /\ \E c \in Callers :
           /\ cpc[c] = "AddWorker_spawned"
           /\ wpc[cid[c][1]] = "job"
           /\ cid[c][1] \in DOMAIN workers

\* C18 (as claimed): in every state the registry has at most as many entries
\* as p.wg counts.
C18_RegistryAtMostLiveCount == Cardinality(DOMAIN workers) <= wg

\* C18 (amended): the registry has at most as many entries as p.wg counts,
\* not counting the entry of an AddWorker call that has registered its worker
\* and not yet called wg.Add(1); there is at most one such call, and it holds
\* p.mu.  So with the counter at zero the registry holds nothing else.
C18_RegistryAtMostLiveCountOrLaunching ==
    /\ Cardinality((DOMAIN workers) \ Launching) <= wg
    /\ Cardinality(Launching) <= 1
    /\ Launching # {} => \E c \in Callers : mu = ByCaller(c)
    /\ wg = 0 => DOMAIN workers \subseteq Launching

\* C18 witness: a worker has deleted its entry and not yet signalled the
\* counter, so the registry is strictly smaller than the counter.
C18_Witness ==
    /\ ~panicked
    /\ \E w \in WorkerIds : wpc[w] = "deregistered"
    /\ Cardinality(DOMAIN workers) < wg

\* The number of places where job j is: slots of the buffer, workers that
\* are processing it, and the record of finished jobs.
Places(j) ==
    Cardinality({i \in 1 .. Len(jobs) : jobs[i] = j})
        + Cardinality({w \in WorkerIds : wjob[w] = <<j>>})
        + (IF j \in processed THEN 1 ELSE 0)

\* C19: job conservation without duplication.  Every accepted job is in
\* exactly one place (buffered, held by one worker, or processed) and has
\* been received at most once; a rejected job is in no place and has never
\* been received.
C19_JobConservation ==
    /\ \A j \in Range(accepted) : Places(j) = 1 /\ TimesReceived(j) <= 1
    /\ \A j \in rejected :
           /\ j \notin Range(accepted)
           /\ Places(j) = 0
           /\ TimesReceived(j) = 0

\* C19 witness: of two accepted jobs one is processed and the other is being
\* processed by a worker.
C19_Witness ==
    /\ ~panicked
    /\ Len(accepted) = 2
    /\ \E j \in processed, w \in WorkerIds :
           wpc[w] = "job" /\ wjob[w] # <<j>>

\* C20, the steps: with the queue closed, SendJob panics and neither buffers
\* nor rejects the job; a further Shutdown panics at close(p.jobs), and has
\* then neither taken the lock, cancelled a worker nor waited; and a panic
\* ends the program, no step follows it.
C20_MisuseStep ==
    /\ \A c \in Callers, job \in Payloads :
           (closed /\ SendJob(c, job)) =>
               /\ panicked'
               /\ UNCHANGED <<jobs, accepted, rejected>>
    /\ \A c \in Callers :
           (closed /\ ShutdownClose(c)) =>
               /\ panicked'
               /\ UNCHANGED <<mu, ctxDone, crange, cpc, wg, sdReturned>>
    /\ ~panicked

\* C20: misuse after the queue is closed is not a safe no-op.  Every step
\* obeys C20_MisuseStep, and a panic happens only with the queue closed.
C20_MisuseAfterClosePanics ==
    /\ [](panicked => closed)
    /\ [][C20_MisuseStep]_vars

\* C20 witness: the program has panicked after a Shutdown had returned.
C20_Witness == panicked /\ closed /\ sdReturned

====
